---- MODULE Spec2Model ----
(***************************************************************************)
(* Model of sys/kern/build.rs of Hubris: the kernel's build script.  It    *)
(* writes consts.rs (the EXC_RETURN constant) and kconfig.rs (the image    *)
(* id, the task and region descriptor tables and the two interrupt lookup  *)
(* tables), choosing the encoding of the lookup tables from the target.    *)
(*                                                                         *)
(* build.rs calls three crates that are not part of the source at hand:    *)
(* phash_gen (the table builders), phash (the kernel's lookups) and abi    *)
(* (InterruptNum, InterruptOwner and their invalid() sentinels).  They are *)
(* modelled from the specification's sections 4.3 and 4.4; u32 is modelled *)
(* WordBits wide so that the multiplicative hash wraps within TLC's        *)
(* integers.                                                               *)
(***************************************************************************)
EXTENDS Integers, Sequences, FiniteSets, TLC

\* ------------------------------------------------------------- bounds ----
\* Longest task list of a configuration.
MaxTasks == 2
\* Longest interrupt-assignment list of a configuration.
MaxIrqs == 3
\* Largest interrupt number of a configuration.
MaxIrqNum == 3

\* ------------------------------------------------- words and sentinels ---
\* Width of the model's u32.
WordBits == 4

RECURSIVE Pow2(_)
Pow2(n) == IF n = 0 THEN 1 ELSE 2 * Pow2(n - 1)

Word == Pow2(WordBits)

\* u32::MAX
U32Max == Word - 1

\* abi::InterruptNum::invalid()
InterruptNumInvalid == U32Max

\* abi::InterruptOwner::invalid()
InterruptOwnerInvalid == [task |-> U32Max, notification |-> 0]

Min(S) == CHOOSE x \in S : \A y \in S : x <= y

RECURSIVE NextPow2From(_, _)
NextPow2From(p, n) == IF p >= n THEN p ELSE NextPow2From(2 * p, n)

\* usize::next_power_of_two
NextPow2(n) == NextPow2From(1, n)

RECURSIVE CeilSqrtFrom(_, _)
CeilSqrtFrom(r, n) == IF r * r >= n THEN r ELSE CeilSqrtFrom(r + 1, n)

CeilSqrt(n) == CeilSqrtFrom(0, n)

\* ------------------------------------------------ number formatting ------
\* A formatted number is the sequence of its digits, most significant first.
RECURSIVE Digits(_, _)
Digits(n, radix) ==
    IF n < radix THEN <<n>> ELSE Append(Digits(n \div radix, radix), n % radix)

RECURSIVE ParseDigits(_, _)
ParseDigits(ds, radix) ==
    IF ds = <<>> THEN 0
    ELSE radix * ParseDigits(SubSeq(ds, 1, Len(ds) - 1), radix) + ds[Len(ds)]

\* format!("{}", n)
FmtDec(n) == [radix |-> 10, digits |-> Digits(n, 10)]

\* format!("0b{:b}", n)
FmtBin(n) == [radix |-> 2, digits |-> Digits(n, 2)]

\* format!("{:#x}", n)
FmtHex(n) == [radix |-> 16, digits |-> Digits(n, 16)]

RECURSIVE ZeroPad(_, _)
ZeroPad(ds, width) == IF Len(ds) >= width THEN ds ELSE ZeroPad(<<0>> \o ds, width)

\* format!("{:#010x}", n): "0x" and at least eight hexadecimal digits
FmtHex010(n) == [radix |-> 16, digits |-> ZeroPad(Digits(n, 16), 8)]

\* The number a literal of the generated source denotes.
LitValue(lit) == ParseDigits(lit.digits, lit.radix)

\* ------------------------------------------------------ abi key types ----
\* An interrupt number is the u32 inside abi::InterruptNum; an owner is the
\* record abi::InterruptOwner {task, notification}.

\* The u32 the multiplicative hash of an interrupt number starts from.
PhashNum(irq) == irq

\* The u32 the multiplicative hash of an owner starts from.
PhashOwner(owner) == (owner.task + 4 * owner.notification) % Word

\* Ord for InterruptNum
LessNum(a, b) == a < b

\* Ord for InterruptOwner: task, then notification
LessOwner(a, b) ==
    \/ a.task < b.task
    \/ a.task = b.task /\ a.notification < b.notification

\* The two key types K the tables are built over.
NumKey == "InterruptNum"
OwnerKey == "InterruptOwner"

\* K's hash word and K's order.
Phash(K, key) == IF K = NumKey THEN PhashNum(key) ELSE PhashOwner(key)
Less(K, a, b) == IF K = NumKey THEN LessNum(a, b) ELSE LessOwner(a, b)

\* ------------------------------------------- phash_gen: the builders -----
None == [some |-> FALSE]
Some(e) == [some |-> TRUE, v |-> e]
Err == [ok |-> FALSE]

\* Number of multipliers a construction tries before it gives up.
TryCount == 2

\* The i-th multiplier tried (a fixed sequence of odd words).
Multiplier(i) == (3 + 6 * (i - 1)) % Word

\* (key * m) >> shift, for a table of `size` slots (a power of two)
Slot(word, m, size) == ((word * m) % Word) \div (Word \div size)

\* OwnedSortedList::build: the entries in ascending key order
OwnedSortedListBuild(K, entries) ==
    LET n == Len(entries)
        Rank(i) == 1 + Cardinality({j \in 1..n :
                        \/ Less(K, entries[j][1], entries[i][1])
                        \/ entries[j][1] = entries[i][1] /\ j < i})
    IN [ok |-> TRUE,
        values |-> [p \in 1..n |-> entries[CHOOSE i \in 1..n : Rank(i) = p]]]

CollisionFree(K, entries, m) ==
    LET n == Len(entries)
        size == NextPow2(n)
    IN \A i, j \in 1..n :
          i # j => Slot(Phash(K, entries[i][1]), m, size)
                     # Slot(Phash(K, entries[j][1]), m, size)

SlotTable(K, entries, m) ==
    LET n == Len(entries)
        size == NextPow2(n)
        At(s) == {i \in 1..n : Slot(Phash(K, entries[i][1]), m, size) = s}
    IN [s \in 1..size |->
          IF At(s - 1) = {} THEN None ELSE Some(entries[Min(At(s - 1))])]

\* OwnedPerfectHashMap::build: the first multiplier without a collision
OwnedPerfectHashMapBuild(K, entries) ==
    LET good == {i \in 1..TryCount : CollisionFree(K, entries, Multiplier(i))}
    IN IF good = {} THEN Err
       ELSE [ok |-> TRUE, m |-> Multiplier(Min(good)),
             values |-> SlotTable(K, entries, Multiplier(Min(good)))]

\* OwnedNestedPerfectHashMap::build: the first multiplier m whose buckets
\* each have a collision-free multiplier g[b] of their own
OwnedNestedPerfectHashMapBuild(K, entries) ==
    LET B == NextPow2(CeilSqrt(Len(entries)))
        Bucket(m, b) == SelectSeq(entries, LAMBDA e : Slot(Phash(K, e[1]), m, B) = b)
        Sub(m, b) == OwnedPerfectHashMapBuild(K, Bucket(m, b))
        good == {i \in 1..TryCount : \A b \in 0..(B - 1) : Sub(Multiplier(i), b).ok}
    IN IF good = {} THEN Err
       ELSE LET m == Multiplier(Min(good))
            IN [ok |-> TRUE, m |-> m,
                g |-> [b \in 1..B |-> Sub(m, b - 1).m],
                values |-> [b \in 1..B |-> Sub(m, b - 1).values]]

\* ------------------------------------------- phash: the kernel's lookups -
\* A table as the kernel holds it: `values` are (key, value) pairs, an empty
\* slot holding the invalid key.
Absent == [found |-> FALSE]
Found(v) == [found |-> TRUE, value |-> v]

\* SortedList::get: binary search
SortedListGet(K, values, key) ==
    LET n == Len(values)
        bs[lo \in 0..n, hi \in 0..n] ==
            IF lo >= hi THEN Absent
            ELSE LET mid == (lo + hi) \div 2
                 IN IF values[mid + 1][1] = key THEN Found(values[mid + 1][2])
                    ELSE IF Less(K, values[mid + 1][1], key) THEN bs[mid + 1, hi]
                    ELSE bs[lo, mid]
    IN bs[0, n]

\* PerfectHashMap::get: index the slot, then verify the stored key
PerfectHashMapGet(K, m, values, key) ==
    LET e == values[Slot(Phash(K, key), m, Len(values)) + 1]
    IN IF e[1] = key THEN Found(e[2]) ELSE Absent

\* NestedPerfectHashMap::get: m picks the bucket, g[bucket] the slot
NestedPerfectHashMapGet(K, m, g, values, key) ==
    LET b == Slot(Phash(K, key), m, Len(g)) + 1
    IN PerfectHashMapGet(K, g[b], values[b], key)

\* ------------------------------------------------------------ inputs -----
\* An environment variable: unset, or set to a value.
EnvAbsent == [set |-> FALSE]
EnvSet(v) == [set |-> TRUE, value |-> v]

\* HUBRIS_SECURE
SecureValues == {EnvAbsent, EnvSet("0"), EnvSet("1"), EnvSet("")}

\* HUBRIS_IMAGE_ID, a string of characters
ImageIdValues ==
    {EnvAbsent, EnvSet(<<"7">>), EnvSet(<<"0", "7">>), EnvSet(<<"x">>), EnvSet(<<>>)}

DigitChars == {"0", "1", "2", "3", "4", "5", "6", "7", "8", "9"}

DigitOf(c) ==
    CASE c = "0" -> 0 [] c = "1" -> 1 [] c = "2" -> 2 [] c = "3" -> 3
      [] c = "4" -> 4 [] c = "5" -> 5 [] c = "6" -> 6 [] c = "7" -> 7
      [] c = "8" -> 8 [] c = "9" -> 9

\* str::parse::<u64>
ParseU64(chars) ==
    IF chars = <<>> \/ \E i \in 1..Len(chars) : chars[i] \notin DigitChars
    THEN Err
    ELSE [ok |-> TRUE,
          value |-> ParseDigits([i \in 1..Len(chars) |-> DigitOf(chars[i])], 10)]

\* The target triples, as strings of characters.
ThumbV6m == <<"t", "h", "u", "m", "b", "v", "6", "m">>
ThumbV7m == <<"t", "h", "u", "m", "b", "v", "7", "m">>
ThumbV7em == <<"t", "h", "u", "m", "b", "v", "7", "e", "m">>
ThumbV8m == <<"t", "h", "u", "m", "b", "v", "8", "m">>
NoneEabi == <<"-", "n", "o", "n", "e", "-", "e", "a", "b", "i">>

Targets ==
    { ThumbV6m \o NoneEabi,
      ThumbV7m \o NoneEabi,
      ThumbV7em \o NoneEabi \o <<"h", "f">>,
      ThumbV8m \o <<".", "m", "a", "i", "n">> \o NoneEabi \o <<"h", "f">>,
      <<"r", "i", "s", "c", "v", "3", "2", "i", "m", "c">> \o NoneEabi }

\* str::starts_with
StartsWith(s, prefix) ==
    Len(s) >= Len(prefix) /\ SubSeq(s, 1, Len(prefix)) = prefix

\* abi::TaskDesc
TaskDescs ==
    [regions : {<<0, 1>>}, entry_point : {8}, initial_stack : {12},
     priority : {3}, index : 0..(MaxTasks - 1), flags : {1}]

\* abi::RegionDesc
RegionDescs == [base : {0}, size : {32}, attributes : {3, 5}]

\* abi::InterruptOwner
Owners == [task : {0, 2}, notification : {1, 2}]

\* abi::Interrupt
Interrupts == [irq : 0..MaxIrqNum, owner : Owners]

SeqsUpTo(S, n) == UNION {[1..k -> S] : k \in 0..n}

\* Interrupt-assignment lists: each interrupt number at most once.
IrqLists ==
    {s \in SeqsUpTo(Interrupts, MaxIrqs) :
        \A i, j \in 1..Len(s) : i # j => s[i].irq # s[j].irq}

BaseTasks ==
    << [regions |-> <<0, 1>>, entry_point |-> 8, initial_stack |-> 12,
        priority |-> 3, index |-> 0, flags |-> 1] >>

BaseRegions == << [base |-> 0, size |-> 32, attributes |-> 3] >>

\* KernelConfig, as deserialized from HUBRIS_KCONFIG.  The descriptor tables
\* and the interrupt tables share no data, so the configurations vary the
\* tasks and regions with no interrupts, and the interrupts with one task.
KernelConfigs ==
    {[tasks |-> t, regions |-> r, irqs |-> <<>>] :
        t \in SeqsUpTo(TaskDescs, MaxTasks), r \in SeqsUpTo(RegionDescs, 1)}
    \cup {[tasks |-> BaseTasks, regions |-> BaseRegions, irqs |-> i] : i \in IrqLists}

EmptyConfig == [tasks |-> <<>>, regions |-> <<>>, irqs |-> <<>>]

\* HUBRIS_KCONFIG: unset, not a KernelConfig document, or a configuration
KconfigValues ==
    {EnvAbsent, EnvSet(Err)} \cup {EnvSet([ok |-> TRUE, value |-> c]) : c \in KernelConfigs}

\* -------------------------------------------------- generate_consts ------
ExcReturnSecure == [radix |-> 16, digits |-> <<15, 15, 15, 15, 15, 15, 14, 13>>]
ExcReturnNonSecure == [radix |-> 16, digits |-> <<15, 15, 15, 15, 15, 15, 10, 12>>]

\* The EXC_RETURN_CONST literal chosen from HUBRIS_SECURE.
ExcReturnConstAlwaysSecure(secure) == ExcReturnSecure

ExcReturnConst(secure) ==
    IF secure.set
    THEN IF secure.value = "0" THEN ExcReturnNonSecure ELSE ExcReturnSecure
    ELSE ExcReturnSecure

ConstsText(secure) ==
    << [kind |-> "comment"],
       [kind |-> "const", name |-> "EXC_RETURN_CONST", value |-> ExcReturnConst(secure)] >>

\* Bit k of a hexadecimal literal.
HexBit(lit, k) ==
    (lit.digits[Len(lit.digits) - (k \div 4)] \div Pow2(k % 4)) % 2

\* ------------------------------------------ generate_statics: the text ---
HeaderText(image_id, kconfig) ==
    << [kind |-> "comment"],
       [kind |-> "static", name |-> "HUBRIS_IMAGE_ID", value |-> FmtDec(image_id)],
       [kind |-> "const", name |-> "HUBRIS_TASK_COUNT",
        value |-> FmtDec(Len(kconfig.tasks))] >>

FmtTaskDescIndexFromPriority(task) ==
    [regions |-> [j \in 1..Len(task.regions) |-> FmtDec(task.regions[j])],
     entry_point |-> FmtHex010(task.entry_point),
     initial_stack |-> FmtHex010(task.initial_stack),
     priority |-> FmtDec(task.priority),
     index |-> FmtDec(task.priority),
     flags |-> FmtDec(task.flags)]

\* One abi::TaskDesc { .. } of HUBRIS_TASK_DESCS.
FmtTaskDesc(task) ==
    [regions |-> [j \in 1..Len(task.regions) |-> FmtDec(task.regions[j])],
     entry_point |-> FmtHex010(task.entry_point),
     initial_stack |-> FmtHex010(task.initial_stack),
     priority |-> FmtDec(task.priority),
     index |-> FmtDec(task.index),
     flags |-> FmtDec(task.flags)]

TaskDescsText(kconfig) ==
    << [kind |-> "array", name |-> "HUBRIS_TASK_DESCS", len |-> "HUBRIS_TASK_COUNT",
        elems |-> [i \in 1..Len(kconfig.tasks) |-> FmtTaskDesc(kconfig.tasks[i])]] >>

FmtRegionDesc(region) ==
    [base |-> FmtHex010(region.base),
     size |-> FmtHex010(region.size),
     attributes |-> FmtDec(region.attributes)]

RegionDescsText(kconfig) ==
    << [kind |-> "static_mut", name |-> "HUBRIS_TASK_TABLE_SPACE"],
       [kind |-> "static_mut", name |-> "HUBRIS_REGION_TABLE_SPACE"],
       [kind |-> "array", name |-> "HUBRIS_REGION_DESCS",
        len |-> FmtDec(Len(kconfig.regions)),
        elems |-> [i \in 1..Len(kconfig.regions) |-> FmtRegionDesc(kconfig.regions[i])]] >>

\* ------------------------------------- generate_statics: the two maps ----
\* irq_task_map: (irq, owner) for every assignment, in the input's order
IrqTaskMap(kconfig) ==
    [i \in 1..Len(kconfig.irqs) |-> <<kconfig.irqs[i].irq, kconfig.irqs[i].owner>>]

\* The owners that occur in the assignments.
OwnersOf(kconfig) == {kconfig.irqs[i].owner : i \in 1..Len(kconfig.irqs)}

IrqsOfOwnerUnfiltered(kconfig, owner) ==
    [i \in 1..Len(kconfig.irqs) |-> kconfig.irqs[i].irq]

\* per_task_irqs[owner]: the owner's interrupt numbers, pushed in the order
\* of the assignment list
IrqsOfOwner(kconfig, owner) ==
    LET mine == SelectSeq(kconfig.irqs, LAMBDA a : a.owner = owner)
    IN [i \in 1..Len(mine) |-> mine[i].irq]

\* The orders in which HashMap::into_iter may yield the entries of
\* per_task_irqs: every one of them.
TaskIrqMaps(kconfig) ==
    LET owners == OwnersOf(kconfig)
        n == Cardinality(owners)
    IN {[i \in 1..n |-> <<order[i], IrqsOfOwner(kconfig, order[i])>>] :
          order \in {f \in [1..n -> owners] : \A i, j \in 1..n : i # j => f[i] # f[j]}}

\* --------------------------------------------- the formatting closures ---
FmtIrqTaskNoneAsZero(v) ==
    IF v.some
    THEN [invalid |-> FALSE, irq |-> FmtDec(v.v[1]), task |-> FmtDec(v.v[2].task),
          notification |-> FmtBin(v.v[2].notification)]
    ELSE [invalid |-> FALSE, irq |-> FmtDec(0), task |-> FmtDec(0),
          notification |-> FmtBin(0)]

FmtIrqTaskSwapped(v) ==
    IF v.some
    THEN [invalid |-> FALSE, irq |-> FmtDec(v.v[1]),
          task |-> FmtDec(v.v[2].notification),
          notification |-> FmtBin(v.v[2].task)]
    ELSE [invalid |-> TRUE]

\* fmt_irq_task
FmtIrqTask(v) ==
    IF v.some
    THEN [invalid |-> FALSE, irq |-> FmtDec(v.v[1]), task |-> FmtDec(v.v[2].task),
          notification |-> FmtBin(v.v[2].notification)]
    ELSE [invalid |-> TRUE]

\* fmt_task_irq
FmtTaskIrq(v) ==
    IF v.some
    THEN [invalid |-> FALSE, task |-> FmtDec(v.v[1].task),
          notification |-> FmtBin(v.v[1].notification),
          irqs |-> [i \in 1..Len(v.v[2]) |-> FmtDec(v.v[2][i])]]
    ELSE [invalid |-> TRUE]

\* ------------------------------------------------ the emitted tables -----
IrqTaskName == "HUBRIS_IRQ_TASK_LOOKUP"
TaskIrqName == "HUBRIS_TASK_IRQ_LOOKUP"

\* The closure a table's entries are formatted with.
FmtEntry(name, v) == IF name = IrqTaskName THEN FmtIrqTask(v) ELSE FmtTaskIrq(v)

UseText(ty) == [kind |-> "use", ty |-> ty]

SortedListText(name, built) ==
    [kind |-> "table", name |-> name, ty |-> "SortedList",
     values |-> [i \in 1..Len(built.values) |-> FmtEntry(name, Some(built.values[i]))]]

PerfectHashMapText(name, built) ==
    [kind |-> "table", name |-> name, ty |-> "PerfectHashMap",
     m |-> FmtHex(built.m),
     values |-> [i \in 1..Len(built.values) |-> FmtEntry(name, built.values[i])]]

NestedPerfectHashMapText(name, built) ==
    [kind |-> "table", name |-> name, ty |-> "NestedPerfectHashMap",
     m |-> FmtHex(built.m),
     g |-> [b \in 1..Len(built.g) |-> FmtHex(built.g[b])],
     values |-> [b \in 1..Len(built.values) |->
                   [i \in 1..Len(built.values[b]) |-> FmtEntry(name, built.values[b][i])]]]

\* ------------------------------- the kernel's reading of kconfig.rs ------
\* The (InterruptNum, InterruptOwner) an entry of HUBRIS_IRQ_TASK_LOOKUP denotes.
IrqTaskPair(e) ==
    IF e.invalid THEN <<InterruptNumInvalid, InterruptOwnerInvalid>>
    ELSE <<LitValue(e.irq),
           [task |-> LitValue(e.task), notification |-> LitValue(e.notification)]>>

\* The (InterruptOwner, &[InterruptNum]) an entry of HUBRIS_TASK_IRQ_LOOKUP denotes.
TaskIrqPair(e) ==
    IF e.invalid THEN <<InterruptOwnerInvalid, <<>>>>
    ELSE <<[task |-> LitValue(e.task), notification |-> LitValue(e.notification)],
           [i \in 1..Len(e.irqs) |-> LitValue(e.irqs[i])]>>

\* The key type of a table and the pair one of its entries denotes.
KeyType(name) == IF name = IrqTaskName THEN NumKey ELSE OwnerKey
EntryPair(name, e) == IF name = IrqTaskName THEN IrqTaskPair(e) ELSE TaskIrqPair(e)

\* get(key) on an emitted table, by the routine its type names.
TableGet(t, key) ==
    LET K == KeyType(t.name)
        Pair(e) == EntryPair(t.name, e)
    IN CASE t.ty = "SortedList" ->
              SortedListGet(K, [i \in 1..Len(t.values) |-> Pair(t.values[i])], key)
         [] t.ty = "PerfectHashMap" ->
              PerfectHashMapGet(K, LitValue(t.m),
                                [i \in 1..Len(t.values) |-> Pair(t.values[i])], key)
         [] t.ty = "NestedPerfectHashMap" ->
              NestedPerfectHashMapGet(
                  K, LitValue(t.m),
                  [b \in 1..Len(t.g) |-> LitValue(t.g[b])],
                  [b \in 1..Len(t.values) |->
                     [i \in 1..Len(t.values[b]) |-> Pair(t.values[b][i])]],
                  key)

\* -------------------------------------- the lookup tables of a target ----
Attempt(table, ty, ok) == [table |-> table, ty |-> ty, ok |-> ok]

IsSortedListTargetAnyThumb(t) == StartsWith(t, <<"t", "h", "u", "m", "b", "v">>)

\* target.starts_with("thumbv6m")
IsSortedListTarget(t) == StartsWith(t, ThumbV6m)

\* target.starts_with("thumbv7m") || .. "thumbv7em" || .. "thumbv8m"
IsHashTarget(t) ==
    StartsWith(t, ThumbV7m) \/ StartsWith(t, ThumbV7em) \/ StartsWith(t, ThumbV8m)

SortedListsUnsorted(task_irq_map, irq_task_map) ==
    [ok |-> TRUE,
     attempts |-> <<Attempt(TaskIrqName, "SortedList", TRUE),
                    Attempt(IrqTaskName, "SortedList", TRUE)>>,
     text |-> << UseText("SortedList"),
                 SortedListText(IrqTaskName, [values |-> irq_task_map]),
                 SortedListText(TaskIrqName, [values |-> task_irq_map]) >>]

\* The thumbv6m branch: both maps as sorted lists, in one write!.
SortedLists(task_irq_map, irq_task_map) ==
    LET t == OwnedSortedListBuild(OwnerKey, task_irq_map)
        i == OwnedSortedListBuild(NumKey, irq_task_map)
    IN IF ~t.ok
       THEN [ok |-> FALSE, error |-> "building task-to-IRQ map",
             attempts |-> <<Attempt(TaskIrqName, "SortedList", FALSE)>>]
       ELSE IF ~i.ok
       THEN [ok |-> FALSE, error |-> "building IRQ-to-task map",
             attempts |-> <<Attempt(TaskIrqName, "SortedList", TRUE),
                            Attempt(IrqTaskName, "SortedList", FALSE)>>]
       ELSE [ok |-> TRUE,
             attempts |-> <<Attempt(TaskIrqName, "SortedList", TRUE),
                            Attempt(IrqTaskName, "SortedList", TRUE)>>,
             text |-> << UseText("SortedList"),
                         SortedListText(IrqTaskName, i),
                         SortedListText(TaskIrqName, t) >>]

TaskIrqLookupNestedOnly(task_irq_map) ==
    LET n == OwnedNestedPerfectHashMapBuild(OwnerKey, task_irq_map)
    IN IF n.ok
       THEN [ok |-> TRUE, nested_import |-> TRUE,
             attempts |-> <<Attempt(TaskIrqName, "NestedPerfectHashMap", TRUE)>>,
             text |-> << UseText("NestedPerfectHashMap"),
                         NestedPerfectHashMapText(TaskIrqName, n) >>]
       ELSE [ok |-> FALSE, error |-> "building task-to-IRQ perfect hash",
             attempts |-> <<Attempt(TaskIrqName, "NestedPerfectHashMap", FALSE)>>]

\* The hash branch, HUBRIS_TASK_IRQ_LOOKUP: the if-let that sets nested_import.
TaskIrqLookup(task_irq_map) ==
    LET p == OwnedPerfectHashMapBuild(OwnerKey, task_irq_map)
        n == OwnedNestedPerfectHashMapBuild(OwnerKey, task_irq_map)
    IN IF p.ok
       THEN [ok |-> TRUE, nested_import |-> FALSE,
             attempts |-> <<Attempt(TaskIrqName, "PerfectHashMap", TRUE)>>,
             text |-> << UseText("PerfectHashMap"),
                         PerfectHashMapText(TaskIrqName, p) >>]
       ELSE IF n.ok
       THEN [ok |-> TRUE, nested_import |-> TRUE,
             attempts |-> <<Attempt(TaskIrqName, "PerfectHashMap", FALSE),
                            Attempt(TaskIrqName, "NestedPerfectHashMap", TRUE)>>,
             text |-> << UseText("NestedPerfectHashMap"),
                         NestedPerfectHashMapText(TaskIrqName, n) >>]
       ELSE [ok |-> FALSE, error |-> "building task-to-IRQ perfect hash",
             attempts |-> <<Attempt(TaskIrqName, "PerfectHashMap", FALSE),
                            Attempt(TaskIrqName, "NestedPerfectHashMap", FALSE)>>]

IrqTaskLookupNoImport(irq_task_map, nested_import) ==
    LET p == OwnedPerfectHashMapBuild(NumKey, irq_task_map)
        n == OwnedNestedPerfectHashMapBuild(NumKey, irq_task_map)
    IN IF p.ok
       THEN [ok |-> TRUE,
             attempts |-> <<Attempt(IrqTaskName, "PerfectHashMap", TRUE)>>,
             text |-> << PerfectHashMapText(IrqTaskName, p) >>]
       ELSE IF n.ok
       THEN [ok |-> TRUE,
             attempts |-> <<Attempt(IrqTaskName, "PerfectHashMap", FALSE),
                            Attempt(IrqTaskName, "NestedPerfectHashMap", TRUE)>>,
             text |-> << NestedPerfectHashMapText(IrqTaskName, n) >>]
       ELSE [ok |-> FALSE, error |-> "building IRQ-to-task perfect hash",
             attempts |-> <<Attempt(IrqTaskName, "PerfectHashMap", FALSE),
                            Attempt(IrqTaskName, "NestedPerfectHashMap", FALSE)>>]

\* The hash branch, HUBRIS_IRQ_TASK_LOOKUP: it imports the type the first
\* table did not.
IrqTaskLookup(irq_task_map, nested_import) ==
    LET p == OwnedPerfectHashMapBuild(NumKey, irq_task_map)
        n == OwnedNestedPerfectHashMapBuild(NumKey, irq_task_map)
    IN IF p.ok
       THEN [ok |-> TRUE,
             attempts |-> <<Attempt(IrqTaskName, "PerfectHashMap", TRUE)>>,
             text |-> (IF nested_import THEN <<UseText("PerfectHashMap")>> ELSE <<>>)
                      \o << PerfectHashMapText(IrqTaskName, p) >>]
       ELSE IF n.ok
       THEN [ok |-> TRUE,
             attempts |-> <<Attempt(IrqTaskName, "PerfectHashMap", FALSE),
                            Attempt(IrqTaskName, "NestedPerfectHashMap", TRUE)>>,
             text |-> (IF ~nested_import THEN <<UseText("NestedPerfectHashMap")>>
                       ELSE <<>>)
                      \o << NestedPerfectHashMapText(IrqTaskName, n) >>]
       ELSE [ok |-> FALSE, error |-> "building IRQ-to-task perfect hash",
             attempts |-> <<Attempt(IrqTaskName, "PerfectHashMap", FALSE),
                            Attempt(IrqTaskName, "NestedPerfectHashMap", FALSE)>>]

\* ------------------------------------------------------- the build -------
VARIABLES
    pc,            \* the statement main is at
    result,        \* "running", "ok" (main returned Ok), "error" (Err), "panic"
    error,         \* the context of the error or panic
    consts_rs,     \* OUT_DIR/consts.rs
    kconfig_rs,    \* OUT_DIR/kconfig.rs
    secure,        \* HUBRIS_SECURE, while generate_consts holds it
    image_id,      \* HUBRIS_IMAGE_ID, once parsed
    kconfig,       \* HUBRIS_KCONFIG, once deserialized
    target,        \* build_util::target(), once read
    irq_task_map,  \* the local of generate_statics, until a build takes it
    task_irq_map,  \* the local of generate_statics, until a build takes it
    nested_import, \* the local of the hash branch
    attempts       \* history: the constructions tried, in order

vars == <<pc, result, error, consts_rs, kconfig_rs, secure, image_id, kconfig,
          target, irq_task_map, task_irq_map, nested_import, attempts>>

NoFile == [exists |-> FALSE, text |-> <<>>]
Created == [exists |-> TRUE, text |-> <<>>]

Init ==
    /\ pc = "create_consts"
    /\ result = "running"
    /\ error = ""
    /\ consts_rs = NoFile
    /\ kconfig_rs = NoFile
    /\ secure = EnvAbsent
    /\ image_id = 0
    /\ kconfig = EmptyConfig
    /\ target = <<>>
    /\ irq_task_map = <<>>
    /\ task_irq_map = <<>>
    /\ nested_import = FALSE
    /\ attempts = <<>>

FailDiscarded(context) ==
    /\ pc' = "exit"
    /\ result' = "ok"
    /\ error' = ""

\* `?` on an Err: main returns it.
Fail(context) ==
    /\ pc' = "exit"
    /\ result' = "error"
    /\ error' = context

Goto(next) ==
    /\ pc' = next
    /\ UNCHANGED <<result, error>>

\* The file after the first n items of block are written.
Written(file, block, n) == [file EXCEPT !.text = @ \o SubSeq(block, 1, n)]

\* generate_consts: File::create
CreateConsts ==
    /\ pc = "create_consts"
    /\ \/ consts_rs' = Created /\ Goto("write_consts")
       \/ UNCHANGED consts_rs /\ Fail("creating consts.rs file")
    /\ UNCHANGED <<kconfig_rs, secure, image_id, kconfig, target, irq_task_map,
                   task_irq_map, nested_import, attempts>>

\* generate_consts: the comment and the constant
WriteConsts ==
    /\ pc = "write_consts"
    /\ \E s \in SecureValues :
         /\ secure' = s
         /\ \/ /\ consts_rs' = Written(consts_rs, ConstsText(s), Len(ConstsText(s)))
               /\ Goto("consts_done")
            \/ \E n \in 0..(Len(ConstsText(s)) - 1) :
                 /\ consts_rs' = Written(consts_rs, ConstsText(s), n)
                 /\ Fail("write consts.rs")
    /\ UNCHANGED <<kconfig_rs, image_id, kconfig, target, irq_task_map,
                   task_irq_map, nested_import, attempts>>

\* generate_consts returns Ok(()): its locals are dropped
ReturnConsts ==
    /\ pc = "consts_done"
    /\ secure' = EnvAbsent
    /\ Goto("image_id")
    /\ UNCHANGED <<consts_rs, kconfig_rs, image_id, kconfig, target, irq_task_map,
                   task_irq_map, nested_import, attempts>>

\* generate_statics: HUBRIS_IMAGE_ID
ReadImageId ==
    /\ pc = "image_id"
    /\ \E v \in ImageIdValues :
         IF ~v.set
         THEN Fail("HUBRIS_IMAGE_ID") /\ UNCHANGED image_id
         ELSE IF ~ParseU64(v.value).ok
         THEN Fail("parsing HUBRIS_IMAGE_ID") /\ UNCHANGED image_id
         ELSE image_id' = ParseU64(v.value).value /\ Goto("kconfig")
    /\ UNCHANGED <<consts_rs, kconfig_rs, secure, kconfig, target, irq_task_map,
                   task_irq_map, nested_import, attempts>>

\* generate_statics: HUBRIS_KCONFIG
ReadKconfig ==
    /\ pc = "kconfig"
    /\ \E v \in KconfigValues :
         IF ~v.set
         THEN Fail("HUBRIS_KCONFIG") /\ UNCHANGED kconfig
         ELSE IF ~v.value.ok
         THEN Fail("parsing kconfig from HUBRIS_KCONFIG") /\ UNCHANGED kconfig
         ELSE kconfig' = v.value.value /\ Goto("create_kconfig")
    /\ UNCHANGED <<consts_rs, kconfig_rs, secure, image_id, target, irq_task_map,
                   task_irq_map, nested_import, attempts>>

\* generate_statics: File::create
CreateKconfig ==
    /\ pc = "create_kconfig"
    /\ \/ kconfig_rs' = Created /\ Goto("header")
       \/ UNCHANGED kconfig_rs /\ Fail("creating kconfig.rs")
    /\ UNCHANGED <<consts_rs, secure, image_id, kconfig, target, irq_task_map,
                   task_irq_map, nested_import, attempts>>

\* writeln!(file, ..)?: write block to kconfig.rs and go on, or return the
\* error of a failed write, which leaves part of the block written.
WriteKconfig(block, next) ==
    \/ kconfig_rs' = Written(kconfig_rs, block, Len(block)) /\ Goto(next)
    \/ \E n \in 0..(Len(block) - 1) :
         kconfig_rs' = Written(kconfig_rs, block, n) /\ Fail("write kconfig.rs")

\* generate_statics: the comment, HUBRIS_IMAGE_ID, HUBRIS_TASK_COUNT
WriteHeader ==
    /\ pc = "header"
    /\ WriteKconfig(HeaderText(image_id, kconfig), "task_descs")
    /\ UNCHANGED <<consts_rs, secure, image_id, kconfig, target, irq_task_map,
                   task_irq_map, nested_import, attempts>>

\* generate_statics: HUBRIS_TASK_DESCS
WriteTaskDescs ==
    /\ pc = "task_descs"
    /\ WriteKconfig(TaskDescsText(kconfig), "region_descs")
    /\ UNCHANGED <<consts_rs, secure, image_id, kconfig, target, irq_task_map,
                   task_irq_map, nested_import, attempts>>

\* generate_statics: the table spaces and HUBRIS_REGION_DESCS
WriteRegionDescs ==
    /\ pc = "region_descs"
    /\ WriteKconfig(RegionDescsText(kconfig), "maps")
    /\ UNCHANGED <<consts_rs, secure, image_id, kconfig, target, irq_task_map,
                   task_irq_map, nested_import, attempts>>

\* generate_statics: irq_task_map, per_task_irqs, task_irq_map
CollectMaps ==
    /\ pc = "maps"
    /\ irq_task_map' = IrqTaskMap(kconfig)
    /\ task_irq_map' \in TaskIrqMaps(kconfig)
    /\ Goto("target")
    /\ UNCHANGED <<consts_rs, kconfig_rs, secure, image_id, kconfig, target,
                   nested_import, attempts>>

\* generate_statics: the dispatch on build_util::target()
ReadTarget ==
    /\ pc = "target"
    /\ \E t \in Targets :
         /\ target' = t
         /\ IF IsSortedListTarget(t) THEN Goto("sorted_lists")
            ELSE IF IsHashTarget(t) THEN Goto("task_irq")
            ELSE pc' = "exit" /\ result' = "panic" /\ error' = "Don't know the target"
    /\ UNCHANGED <<consts_rs, kconfig_rs, secure, image_id, kconfig, irq_task_map,
                   task_irq_map, nested_import, attempts>>

\* Emit what a branch built, or return its error.
Emit(built, next) ==
    /\ attempts' = attempts \o built.attempts
    /\ IF built.ok
       THEN WriteKconfig(built.text, next)
       ELSE Fail(built.error) /\ UNCHANGED kconfig_rs

\* generate_statics: the thumbv6m branch
WriteSortedLists ==
    /\ pc = "sorted_lists"
    /\ Emit(SortedLists(task_irq_map, irq_task_map), "return")
    /\ irq_task_map' = <<>>
    /\ task_irq_map' = <<>>
    /\ UNCHANGED <<consts_rs, secure, image_id, kconfig, target, nested_import>>

\* generate_statics: the hash branch, HUBRIS_TASK_IRQ_LOOKUP
WriteTaskIrqLookup ==
    /\ pc = "task_irq"
    /\ LET built == TaskIrqLookup(task_irq_map)
       IN /\ Emit(built, "irq_task")
          /\ nested_import' = (built.ok /\ built.nested_import)
    /\ task_irq_map' = <<>>
    /\ UNCHANGED <<consts_rs, secure, image_id, kconfig, target, irq_task_map>>

\* generate_statics: the hash branch, HUBRIS_IRQ_TASK_LOOKUP
WriteIrqTaskLookup ==
    /\ pc = "irq_task"
    /\ Emit(IrqTaskLookup(irq_task_map, nested_import), "return")
    /\ irq_task_map' = <<>>
    /\ UNCHANGED <<consts_rs, secure, image_id, kconfig, target, task_irq_map,
                   nested_import>>

\* generate_statics and main return Ok(())
Return ==
    /\ pc = "return"
    /\ pc' = "exit"
    /\ result' = "ok"
    /\ UNCHANGED <<error, consts_rs, kconfig_rs, secure, image_id, kconfig, target,
                   irq_task_map, task_irq_map, nested_import, attempts>>

Next ==
    \/ CreateConsts
    \/ WriteConsts
    \/ ReturnConsts
    \/ ReadImageId
    \/ ReadKconfig
    \/ CreateKconfig
    \/ WriteHeader
    \/ WriteTaskDescs
    \/ WriteRegionDescs
    \/ CollectMaps
    \/ ReadTarget
    \/ WriteSortedLists
    \/ WriteTaskIrqLookup
    \/ WriteIrqTaskLookup
    \/ Return

Spec == Init /\ [][Next]_vars

\* ================================ properties =============================
\* The items of a generated file that are lookup tables, imports, ...
TablesOf(text) == SelectSeq(text, LAMBDA it : it.kind = "table")
UsesOf(text, ty) == SelectSeq(text, LAMBDA it : it.kind = "use" /\ it.ty = ty)
HasTable(text, name) == \E i \in 1..Len(text) : text[i].kind = "table" /\ text[i].name = name
TableNamed(text, name) ==
    SelectSeq(text, LAMBDA it : it.kind = "table" /\ it.name = name)[1]
AttemptsOn(name) == SelectSeq(attempts, LAMBDA a : a.table = name)
HashTypes == {"PerfectHashMap", "NestedPerfectHashMap"}
TargetRead == target # <<>>
BuildOk == result = "ok"

\* ------------------------------------------------------------------ C1 ---
\* C1: the encoding of the lookup tables is decided by the target alone.  On
\* a thumbv6m target every table emitted and every construction tried is a
\* sorted list, and a finished build has emitted both tables; on a thumbv7m,
\* thumbv7em or thumbv8m target every table emitted and every construction
\* tried is a hash (single-level or nested); on any other target the build
\* panics, no construction is tried and kconfig.rs holds no lookup table.
\* This holds for every configuration, whatever the number of its keys.
C1_EncodingByTargetOnly ==
    /\ ~TargetRead => TablesOf(kconfig_rs.text) = <<>> /\ attempts = <<>>
    /\ TargetRead =>
         LET tables == TablesOf(kconfig_rs.text)
         IN IF StartsWith(target, ThumbV6m)
            THEN /\ \A i \in 1..Len(tables) : tables[i].ty = "SortedList"
                 /\ \A i \in 1..Len(attempts) : attempts[i].ty = "SortedList"
                 /\ BuildOk => /\ HasTable(kconfig_rs.text, IrqTaskName)
                               /\ HasTable(kconfig_rs.text, TaskIrqName)
            ELSE IF \/ StartsWith(target, ThumbV7m)
                    \/ StartsWith(target, ThumbV7em)
                    \/ StartsWith(target, ThumbV8m)
            THEN /\ \A i \in 1..Len(tables) : tables[i].ty \in HashTypes
                 /\ \A i \in 1..Len(attempts) : attempts[i].ty \in HashTypes
                 /\ BuildOk => /\ HasTable(kconfig_rs.text, IrqTaskName)
                               /\ HasTable(kconfig_rs.text, TaskIrqName)
            ELSE /\ tables = <<>>
                 /\ attempts = <<>>
                 /\ result = "panic"
                 /\ pc = "exit"

\* A finished thumbv6m build of the largest configuration: six keys in all,
\* both tables sorted lists.
C1_Witness ==
    /\ BuildOk
    /\ StartsWith(target, ThumbV6m)
    /\ Len(kconfig.irqs) = MaxIrqs
    /\ Len(TablesOf(kconfig_rs.text)) = 2
    /\ TableNamed(kconfig_rs.text, IrqTaskName).ty = "SortedList"

\* ------------------------------------------------------------------ C2 ---
\* What the constructions of one table must have been, from its own keys.
ExpectedAttempts(name, single_ok, nested_ok) ==
    IF single_ok THEN <<Attempt(name, "PerfectHashMap", TRUE)>>
    ELSE <<Attempt(name, "PerfectHashMap", FALSE),
           Attempt(name, "NestedPerfectHashMap", nested_ok)>>

FallbackOf(name, entries, context) ==
    LET tried == AttemptsOn(name)
        single_ok == OwnedPerfectHashMapBuild(KeyType(name), entries).ok
        nested_ok == OwnedNestedPerfectHashMapBuild(KeyType(name), entries).ok
        nested_failed == \E i \in 1..Len(tried) :
                            tried[i].ty = "NestedPerfectHashMap" /\ ~tried[i].ok
    IN /\ tried # <<>> => tried = ExpectedAttempts(name, single_ok, nested_ok)
       /\ HasTable(kconfig_rs.text, name) =>
            /\ tried # <<>>
            /\ TableNamed(kconfig_rs.text, name).ty = "NestedPerfectHashMap"
                 <=> ~single_ok /\ nested_ok
            /\ TableNamed(kconfig_rs.text, name).ty = "PerfectHashMap" <=> single_ok
       /\ nested_failed <=> (result = "error" /\ error = context)

\* C2: on a hash target, for each table by itself: the single-level
\* construction is tried first; the nested construction is tried exactly when
\* the single-level one failed, and its table is emitted exactly when it then
\* succeeded; a failed single-level construction alone is no error; the
\* build returns the table's construction error exactly when its nested
\* construction failed too (a failed write is the only other way a build on
\* such a target ends in an error).  What is tried and emitted for a table
\* follows from that table's keys alone.
C2_FallbackPerTable ==
    (TargetRead /\ IsHashTarget(target)) =>
        /\ FallbackOf(TaskIrqName,
                      CHOOSE t \in TaskIrqMaps(kconfig) : TRUE,
                      "building task-to-IRQ perfect hash")
        /\ FallbackOf(IrqTaskName, IrqTaskMap(kconfig),
                      "building IRQ-to-task perfect hash")
        /\ result = "error" =>
             error \in {"building task-to-IRQ perfect hash",
                        "building IRQ-to-task perfect hash", "write kconfig.rs"}
        /\ AttemptsOn(IrqTaskName) # <<>> => AttemptsOn(TaskIrqName) # <<>>

\* A finished build whose owner table fell back to the nested encoding while
\* its interrupt table is single-level.
C2_Witness ==
    /\ BuildOk
    /\ TargetRead /\ IsHashTarget(target)
    /\ AttemptsOn(TaskIrqName) =
         ExpectedAttempts(TaskIrqName, FALSE, TRUE)
    /\ AttemptsOn(IrqTaskName) = ExpectedAttempts(IrqTaskName, TRUE, TRUE)
    /\ TableNamed(kconfig_rs.text, TaskIrqName).ty = "NestedPerfectHashMap"
    /\ TableNamed(kconfig_rs.text, IrqTaskName).ty = "PerfectHashMap"

\* ------------------------------------------------------------------ C3 ---
\* The kernel's two queries on the generated kconfig.rs.
LookupIrq(text, irq) ==
    TableGet(TableNamed(text, IrqTaskName), irq)
LookupOwner(text, owner) ==
    TableGet(TableNamed(text, TaskIrqName), owner)

Range(seq) == {seq[i] : i \in 1..Len(seq)}

IrqSetOf(owner) ==
    {kconfig.irqs[i].irq : i \in {j \in 1..Len(kconfig.irqs) : kconfig.irqs[j].owner = owner}}

\* C3: after a build that returned Ok, looking up the interrupt number of
\* any assignment of the configuration in HUBRIS_IRQ_TASK_LOOKUP finds that
\* assignment's owner (task and notification mask), and looking up any owner
\* of the configuration in HUBRIS_TASK_IRQ_LOOKUP finds exactly the set of
\* interrupt numbers assigned to it; whichever encoding was emitted.
C3_Completeness ==
    BuildOk =>
        /\ \A i \in 1..Len(kconfig.irqs) :
             LookupIrq(kconfig_rs.text, kconfig.irqs[i].irq) = Found(kconfig.irqs[i].owner)
        /\ \A o \in OwnersOf(kconfig) :
             /\ LookupOwner(kconfig_rs.text, o).found
             /\ Range(LookupOwner(kconfig_rs.text, o).value) = IrqSetOf(o)

\* A finished build that emitted a nested and a single-level table, with an
\* owner of two interrupts.
C3_Witness ==
    /\ BuildOk
    /\ Len(kconfig.irqs) = MaxIrqs
    /\ TableNamed(kconfig_rs.text, IrqTaskName).ty = "NestedPerfectHashMap"
    /\ TableNamed(kconfig_rs.text, TaskIrqName).ty = "PerfectHashMap"
    /\ \E o \in OwnersOf(kconfig) : Cardinality(IrqSetOf(o)) = 2

\* ------------------------------------------------------------------ C4 ---
\* Every interrupt number and owner a query can name: every word but the
\* one the sentinels reserve.
QueryIrqs == 0..(U32Max - 1)
QueryOwners == [task : 0..3, notification : 0..3]

FlatValues(t) ==
    IF t.ty = "NestedPerfectHashMap"
    THEN UNION {Range(t.values[b]) : b \in 1..Len(t.values)}
    ELSE Range(t.values)

\* The entries of a table that are not the sentinel are its keys, one each.
EmptySlotsInvalid(t, nkeys) ==
    /\ Cardinality({e \in FlatValues(t) : ~e.invalid}) = nkeys
    /\ t.ty = "PerfectHashMap" =>
         Cardinality({i \in 1..Len(t.values) : ~t.values[i].invalid}) = nkeys

\* C4: after a build that returned Ok, looking up an interrupt number or an
\* owner that the configuration does not hold finds nothing in either table,
\* also when the key hashes to a slot another key occupies; every slot that
\* holds no key is emitted as the invalid sentinel, which no interrupt
\* number and no owner of a configuration equals.
C4_AbsenceCorrectness ==
    BuildOk =>
        /\ \A irq \in QueryIrqs \ Range([i \in 1..Len(kconfig.irqs) |-> kconfig.irqs[i].irq]) :
             LookupIrq(kconfig_rs.text, irq) = Absent
        /\ \A o \in QueryOwners \ OwnersOf(kconfig) :
             LookupOwner(kconfig_rs.text, o) = Absent
        /\ EmptySlotsInvalid(TableNamed(kconfig_rs.text, IrqTaskName), Len(kconfig.irqs))
        /\ EmptySlotsInvalid(TableNamed(kconfig_rs.text, TaskIrqName),
                             Cardinality(OwnersOf(kconfig)))
        /\ \A i \in 1..Len(kconfig.irqs) :
             /\ kconfig.irqs[i].irq # InterruptNumInvalid
             /\ kconfig.irqs[i].owner # InterruptOwnerInvalid

\* A finished build with a single-level interrupt table that has an empty
\* slot, and an absent interrupt number that hashes to an occupied slot.
C4_Witness ==
    /\ BuildOk
    /\ TableNamed(kconfig_rs.text, IrqTaskName).ty = "PerfectHashMap"
    /\ LET t == TableNamed(kconfig_rs.text, IrqTaskName)
       IN /\ \E i \in 1..Len(t.values) : t.values[i].invalid
          /\ \E irq \in QueryIrqs :
               /\ \A i \in 1..Len(kconfig.irqs) : kconfig.irqs[i].irq # irq
               /\ ~t.values[Slot(PhashNum(irq), LitValue(t.m), Len(t.values)) + 1].invalid

\* ------------------------------------------------------------------ C5 ---
\* The lookup tables of kconfig.rs, had per_task_irqs been iterated in the
\* order of tmap.
TextOf(built) == IF built.ok THEN built.text ELSE <<>>

LookupText(tgt, tmap, imap) ==
    IF IsSortedListTarget(tgt) THEN TextOf(SortedLists(tmap, imap))
    ELSE IF IsHashTarget(tgt)
    THEN LET t == TaskIrqLookup(tmap)
         IN IF t.ok THEN t.text \o TextOf(IrqTaskLookup(imap, t.nested_import))
            ELSE <<>>
    ELSE <<>>

KconfigText(id, cfg, tgt, tmap) ==
    HeaderText(id, cfg) \o TaskDescsText(cfg) \o RegionDescsText(cfg)
        \o LookupText(tgt, tmap, IrqTaskMap(cfg))

\* C5: the kconfig.rs of a build that returned Ok is the same for every
\* order in which the HashMap per_task_irqs can be iterated: it is a function
\* of the image id, the configuration and the target; and consts.rs is a
\* function of HUBRIS_SECURE.
C5_Determinism ==
    /\ BuildOk =>
         \A order \in TaskIrqMaps(kconfig) :
            kconfig_rs.text = KconfigText(image_id, kconfig, target, order)
    /\ pc = "consts_done" => consts_rs.text = ConstsText(secure)

\* Finished builds whose configuration has three owners, so that
\* per_task_irqs has six iteration orders.
C5_Witness ==
    /\ BuildOk
    /\ Cardinality(OwnersOf(kconfig)) = 3
    /\ TableNamed(kconfig_rs.text, TaskIrqName).ty = "SortedList"

\* ------------------------------------------------------------------ C6 ---
ConstsComplete ==
    /\ consts_rs.exists
    /\ Len(consts_rs.text) = 2
    /\ consts_rs.text[2].kind = "const"
    /\ consts_rs.text[2].value \in {ExcReturnSecure, ExcReturnNonSecure}

KconfigComplete ==
    /\ kconfig_rs.exists
    /\ HasTable(kconfig_rs.text, IrqTaskName)
    /\ HasTable(kconfig_rs.text, TaskIrqName)
    /\ \E order \in TaskIrqMaps(kconfig) :
          kconfig_rs.text = KconfigText(image_id, kconfig, target, order)

Named(it) == it.kind \notin {"comment", "use"}
HasItem(text, name) == \E i \in 1..Len(text) : Named(text[i]) /\ text[i].name = name
ItemNamed(text, name) == SelectSeq(text, LAMBDA it : Named(it) /\ it.name = name)[1]

TaskDescsWritten == HasItem(kconfig_rs.text, "HUBRIS_TASK_DESCS")

IndexIsPosition(tasks) == \A i \in 1..Len(tasks) : tasks[i].index = i - 1

C8_SecurityConstant ==
    pc = "consts_done" =>
        LET v == consts_rs.text[2].value
        IN /\ Len(consts_rs.text) = 2
           /\ v.radix = 16 /\ Len(v.digits) = 8
           /\ v.digits = IF secure.set /\ secure.value = "0"
                         THEN <<15, 15, 15, 15, 15, 15, 10, 12>>
                         ELSE <<15, 15, 15, 15, 15, 15, 14, 13>>
           /\ HexBit(v, 6) = HexBit(v, 0)
           /\ HexBit(v, 0) = IF secure.set /\ secure.value = "0" THEN 0 ELSE 1

\* generate_consts has written the constant of a non-secure image.
C8_Witness ==
    /\ pc = "consts_done"
    /\ secure = EnvSet("0")
    /\ consts_rs.text[2].value = ExcReturnNonSecure

\* ------------------------------------------------------------------ C9 ---
Ascending(seq) == \A i, j \in 1..Len(seq) : i < j => seq[i] < seq[j]

\* Where interrupt number irq stands in the configuration's assignment list.
PlaceOf(irq) == CHOOSE i \in 1..Len(kconfig.irqs) : kconfig.irqs[i].irq = irq

\* C9 as claimed: every owner's interrupt list of task_irq_map is in
\* ascending order.
C9_ListsAscending ==
    pc = "target" =>
        \A e \in 1..Len(task_irq_map) : Ascending(task_irq_map[e][2])

\* C9, amended: task_irq_map has exactly one entry per distinct owner of the
\* assignment list, and the entry's list holds every interrupt number
\* assigned to that owner exactly once, in the order in which the assignment
\* list gives them (ascending only if the assignment list is).
C9_OneEntryPerOwnerInInputOrder ==
    pc = "target" =>
        /\ \A e, f \in 1..Len(task_irq_map) :
             e # f => task_irq_map[e][1] # task_irq_map[f][1]
        /\ {task_irq_map[e][1] : e \in 1..Len(task_irq_map)} = OwnersOf(kconfig)
        /\ \A e \in 1..Len(task_irq_map) :
             LET list == task_irq_map[e][2]
             IN /\ Range(list) = IrqSetOf(task_irq_map[e][1])
                /\ Len(list) = Cardinality(IrqSetOf(task_irq_map[e][1]))
                /\ \A i, j \in 1..Len(list) :
                     i < j => PlaceOf(list[i]) < PlaceOf(list[j])

\* An owner of two interrupts that the assignment list gives in descending
\* order, beside a second owner.
C9_Witness ==
    /\ pc = "target"
    /\ Len(task_irq_map) = 2
    /\ \E e \in 1..Len(task_irq_map) :
         /\ Len(task_irq_map[e][2]) = 2
         /\ task_irq_map[e][2][1] > task_irq_map[e][2][2]

\* ----------------------------------------------------------------- C10 ---
PlacesOf(text, kind, ty) ==
    {i \in 1..Len(text) : text[i].kind = kind /\ text[i].ty = ty}

\* C10: on a hash target kconfig.rs never imports PerfectHashMap or
\* NestedPerfectHashMap twice, every table stands after the import of its
\* type, and after a build that returned Ok a type is imported exactly when
\* one of the two tables uses it; for each of the four combinations of
\* single-level and nested tables.
C10_Imports ==
    (TargetRead /\ IsHashTarget(target)) =>
        \A ty \in HashTypes :
            LET uses == PlacesOf(kconfig_rs.text, "use", ty)
                tabs == PlacesOf(kconfig_rs.text, "table", ty)
            IN /\ Cardinality(uses) <= 1
               /\ \A t \in tabs : \E u \in uses : u < t
               /\ BuildOk => (uses # {} <=> tabs # {})

\* A finished build whose owner table is single-level and whose interrupt
\* table is nested: the second table brings its own import.
C10_Witness ==
    /\ BuildOk
    /\ TargetRead /\ IsHashTarget(target)
    /\ TableNamed(kconfig_rs.text, TaskIrqName).ty = "PerfectHashMap"
    /\ TableNamed(kconfig_rs.text, IrqTaskName).ty = "NestedPerfectHashMap"
    /\ Cardinality(PlacesOf(kconfig_rs.text, "use", "NestedPerfectHashMap")) = 1
    /\ Cardinality(PlacesOf(kconfig_rs.text, "use", "PerfectHashMap")) = 1

====
